---- MODULE Spec2Model ----
(***************************************************************************)
(* LeviProof web tier: the registration endpoint (POST /api/targets), the  *)
(* dossier endpoint (GET /api/dossier/[dossierId]) and the shared store    *)
(* (tables targets and stories) they run against.                          *)
(*                                                                         *)
(* Strings the code inspects character by character (usernames) are        *)
(* sequences of one-character strings.  A nullable row (the result of      *)
(* maybeSingle()) is a set holding no row or one row.  A store call comes  *)
(* back with a result or with a result carrying an error, as the handlers  *)
(* read it ({ data, error }).  Timestamps the store or the application     *)
(* server sets are readings of two clocks, dbNow (now() in the store) and  *)
(* appNow (new Date() in the handler).  summary and full_analysis are one  *)
(* field, analysis: "" until an analysis is written.  media_url, which     *)
(* every operation only carries through, is left out of the rows.          *)
(***************************************************************************)
EXTENDS Integers, Sequences, FiniteSets, TLC

\* ------------------------------------------------------------------ bounds
\* longest raw username a request body carries
MaxLen == 2
\* most rows of the stories table
MaxStories == 2
\* the clocks read 1..MaxClock
MaxClock == 2
\* longest raw username given to normalizeUsername on its own
MaxNorm == 4
\* most responses to earlier fetches of the dossier page still on their way
MaxStale == 1

\* ------------------------------------------------------------- value sets
Chars == {"a", "A", "@", " "}
RawStrings == UNION {[1..n -> Chars] : n \in 0..MaxLen}
Callers == {"c1", "c2"}
\* outputs of generateDossierId: the token alphabet has both letter cases
DossierIds == {"x7", "X7"}
\* identifiers a GET may carry: the tokens, and one that is never generated
RequestIds == DossierIds \cup {"q2"}
StoryIds == {"s1", "s2"}
\* when a story was posted: two instants, so that stories can tie
Timestamps == {1, 2}
\* the usernames the collaborator's scraper is run with
CollabRaws == {<<"@", "A">>, <<"a", "a", " ">>}
\* media_type is a text column; the schema puts no CHECK on it
MediaTexts == {"image", "video", "gif"}
\* what a store call comes back with: a result, or a result carrying an error
Outcomes == {"ok", "error"}

\* request bodies of POST /api/targets: text that is not JSON, the JSON value
\* null, a JSON value without a username member, a username that is not a
\* string, and a username string
Bodies ==
  {[kind |-> k, username |-> <<>>] : k \in {"malformed", "null", "nofield", "nonstring"}}
    \cup {[kind |-> "string", username |-> s] : s \in RawStrings}

\* the bodies whose username is a string of up to MaxNorm characters
NormBodies ==
  {[kind |-> "string", username |-> s] : s \in UNION {[1..n -> Chars] : n \in 0..MaxNorm}}

\* a few of these bodies: two spellings of one username, another username,
\* and a body that is rejected
FewBodies ==
  {[kind |-> "string", username |-> s] : s \in {<<"@", "A">>, <<"a">>, <<"a", "a">>}}
    \cup {[kind |-> "null", username |-> <<>>]}

\* bodies for every path of the handler: unreadable, null, without a
\* username, and a username
LiveBodies ==
  {[kind |-> k, username |-> <<>>] : k \in {"malformed", "null", "nofield"}}
    \cup {[kind |-> "string", username |-> <<"a">>]}

\* the request bodies of the runs that combine the endpoints: two spellings of
\* one username
SysBodies == {[kind |-> "string", username |-> s] : s \in {<<"@", "A">>, <<"a">>}}

VARIABLES
  targets,     \* table targets: rows [id, username, dossier_id, created_at, last_updated_at]
  stories,     \* table stories: rows [id, target_id, story_id, timestamp, media_type,
               \*   analysis, created_at]
  appNow,      \* the application server's clock
  dbNow,       \* the store's clock
  pc,          \* POST handler of each caller: "idle", "lookup", "insert", "done"
  body,        \* the request body the caller sent
  username,    \* POST: const username (normalized)
  existing,    \* POST: data of the lookup (no row or one row)
  lookupErr,   \* POST: whether the lookup result carried an error (the code drops it)
  error,       \* POST: error of the insert: "none", "outage", "unique_username", "unique_dossier"
  inserted,    \* POST: whether this request's insert stored a row
  calls,       \* POST: store calls this request has made
  after,       \* POST: the callers whose response was complete when this request arrived
  resp,        \* POST: the response, status 0 while there is none
  anonView,    \* dossier ids an anonymous client has read from table targets
  gpc,         \* GET handler: "idle", "lookup", "stories", "done"
  gparam,      \* GET: params.dossierId
  gtarget,     \* GET: data of the target lookup (no row or one row)
  gTargetError,   \* GET: targetError
  gStoriesError,  \* GET: storiesError
  gStored,     \* GET: whether a target with dossier_id = params.dossierId was stored at the lookup
  gAfter,      \* GET: the callers whose POST response was complete when this request arrived
  gresp,       \* GET: the response
  vurl,        \* dossier page: params.dossierId of the page that is loaded
  vfetch,      \* dossier page: its fetch: "none", "pending", "settled", "failed"
  vresp,       \* dossier page: the response the fetch settled with
  loading,     \* dossier page: useState(true)
  verror,      \* dossier page: the state `error`, useState('')
  dossier,     \* dossier page: useState(null); NoDossier stands for null
  vstale,      \* dossier page: responses to fetches for earlier identifiers, on their way
  cCall        \* collaborator: its last call [op, found, dup, result]

postVars == <<pc, body, username, existing, lookupErr, error, inserted, calls, after, resp>>
getVars == <<gpc, gparam, gtarget, gTargetError, gStoriesError, gStored, gAfter, gresp>>
clockVars == <<appNow, dbNow>>
viewVars == <<vurl, vfetch, vresp, loading, verror, dossier, vstale>>
collabVars == <<cCall>>
vars == <<targets, stories, clockVars, postVars, anonView, getVars, viewVars, collabVars>>

\* ----------------------------------------------- normalization utilities
RECURSIVE TrimLeft(_)
TrimLeft(s) == IF s # <<>> /\ Head(s) = " " THEN TrimLeft(Tail(s)) ELSE s

RECURSIVE TrimRight(_)
TrimRight(s) ==
  IF s # <<>> /\ s[Len(s)] = " " THEN TrimRight(SubSeq(s, 1, Len(s) - 1)) ELSE s

Trim(s) == TrimRight(TrimLeft(s))

StripAt(s) == IF s # <<>> /\ Head(s) = "@" THEN Tail(s) ELSE s

LowerChar(ch) == IF ch = "A" THEN "a" ELSE ch

ToLower(s) == [i \in 1..Len(s) |-> LowerChar(s[i])]

\* normalizeUsername: trim, strip one leading @, lowercase; the empty string
\* (falsy for the caller's `!username`) signals invalid
NormalizeUsername(raw) == ToLower(StripAt(Trim(raw)))

\* generateDossierId: any token of the alphabet may come out
GenerateDossierId == DossierIds

\* the checks on the body without `if (!username)`: only body.username itself
\* is tested
Validate_NoEmptyCheck(b) ==
  IF b.kind \in {"malformed", "null"}
    THEN [status |-> 500, dossierId |-> "", error |-> "Internal server error"]
  ELSE IF b.kind \in {"nofield", "nonstring"} \/ b.username = <<>>
    THEN [status |-> 400, dossierId |-> "", error |-> "Username is required"]
  ELSE [status |-> 0, dossierId |-> "", error |-> ""]

\* const username = normalizeUsername(body.username), without the call
RequestUsername_Raw(b) == b.username

\* const username = normalizeUsername(body.username)
RequestUsername(b) == NormalizeUsername(b.username)

\* ------------------------------------------------------------ the store
\* .from('targets').select(...).eq('username', u).maybeSingle()
FindByUsername(u) == {t \in targets : t.username = u}

\* letter case folded, for identifiers that differ only in case
FoldCase(d) == IF d = "X7" THEN "x7" ELSE d

\* a lookup that compares dossier_id without regard to letter case
FindByDossierId_IgnoreCase(d) == {t \in targets : FoldCase(t.dossier_id) = FoldCase(d)}

\* .from('targets').select('*').eq('dossier_id', d).maybeSingle(): text equality
FindByDossierId(d) == {t \in targets : t.dossier_id = d}

\* table targets without UNIQUE on dossier_id
TargetInsertError_NoDossierUnique(u, d) ==
  IF \E t \in targets : t.username = u THEN "unique_username" ELSE "none"

\* table targets without UNIQUE on username
TargetInsertError_NoUsernameUnique(u, d) ==
  IF \E t \in targets : t.dossier_id = d THEN "unique_dossier" ELSE "none"

\* the constraint an insert of (u, d) into targets violates, "none" if it goes through
TargetInsertError(u, d) ==
  IF \E t \in targets : t.username = u THEN "unique_username"
  ELSE IF \E t \in targets : t.dossier_id = d THEN "unique_dossier"
  ELSE "none"

\* the row the store makes of an insert of (username, dossier_id,
\* last_updated_at): id uuid DEFAULT gen_random_uuid(), created_at DEFAULT now()
NewTarget(u, d, lu) ==
  [id |-> Cardinality(targets) + 1, username |-> u, dossier_id |-> d,
   created_at |-> dbNow, last_updated_at |-> lu]

NoResp == [status |-> 0, dossierId |-> "", error |-> ""]
Respond(st, d, e) == [status |-> st, dossierId |-> d, error |-> e]

Init ==
  /\ targets = {}
  /\ stories = {}
  /\ appNow = 1
  /\ dbNow = 1
  /\ pc = [c \in Callers |-> "idle"]
  /\ body = [c \in Callers |-> [kind |-> "nofield", username |-> <<>>]]
  /\ username = [c \in Callers |-> <<>>]
  /\ existing = [c \in Callers |-> {}]
  /\ lookupErr = [c \in Callers |-> FALSE]
  /\ error = [c \in Callers |-> "none"]
  /\ inserted = [c \in Callers |-> FALSE]
  /\ calls = [c \in Callers |-> 0]
  /\ after = [c \in Callers |-> {}]
  /\ resp = [c \in Callers |-> NoResp]
  /\ anonView = {}
  /\ gpc = "idle"
  /\ gparam = ""
  /\ gtarget = {}
  /\ gTargetError = FALSE
  /\ gStoriesError = FALSE
  /\ gStored = FALSE
  /\ gAfter = {}
  /\ gresp = [status |-> 0, dossierId |-> "", username |-> <<>>, storyCount |-> 0,
              stories |-> <<>>, error |-> ""]
  /\ vurl = ""
  /\ vfetch = "none"
  /\ vresp = [status |-> 0, dossierId |-> "", username |-> <<>>, storyCount |-> 0,
              stories |-> <<>>, error |-> ""]
  /\ loading = TRUE
  /\ verror = ""
  /\ dossier = [status |-> 0, dossierId |-> "", username |-> <<>>, storyCount |-> 0,
                stories |-> <<>>, error |-> ""]
  /\ vstale = {}
  /\ cCall = [op |-> "none", found |-> FALSE, dup |-> FALSE, result |-> "none"]

\* ------------------------------------------------- POST /api/targets
\* the outcome of lines 19-35 for body b: the response it ends with, or
\* status 0 when the handler goes on to the store
Validate(b) ==
  IF b.kind \in {"malformed", "null"}
    THEN Respond(500, "", "Internal server error")
  ELSE IF b.kind \in {"nofield", "nonstring"} \/ b.username = <<>>
    THEN Respond(400, "", "Username is required")
  ELSE IF RequestUsername(b) = <<>>
    THEN Respond(400, "", "Invalid username")
  ELSE NoResp

\* the request arrives: request.json(), the two checks, normalizeUsername
PostReceive(c, b) ==
  /\ pc[c] = "idle"
  /\ body' = [body EXCEPT ![c] = b]
  /\ after' = [after EXCEPT ![c] = {d \in Callers \ {c} : pc[d] = "done"}]
  /\ resp' = [resp EXCEPT ![c] = Validate(b)]
  /\ IF Validate(b).status = 0
       THEN /\ pc' = [pc EXCEPT ![c] = "lookup"]
            /\ username' = [username EXCEPT ![c] = RequestUsername(b)]
       ELSE /\ pc' = [pc EXCEPT ![c] = "done"]
            /\ UNCHANGED username
  /\ UNCHANGED <<targets, stories, clockVars, existing, lookupErr, error, inserted,
                 calls, anonView, viewVars, collabVars, getVars>>

\* const { data: existing } = await ...maybeSingle(); if (existing) return it
PostLookup(c, o) ==
  /\ pc[c] = "lookup"
  /\ LET found == IF o = "ok" THEN FindByUsername(username[c]) ELSE {}
     IN /\ existing' = [existing EXCEPT ![c] = found]
        /\ IF found # {}
             THEN /\ resp' = [resp EXCEPT ![c] =
                        Respond(200, (CHOOSE t \in found : TRUE).dossier_id, "")]
                  /\ pc' = [pc EXCEPT ![c] = "done"]
             ELSE /\ pc' = [pc EXCEPT ![c] = "insert"]
                  /\ UNCHANGED resp
  /\ lookupErr' = [lookupErr EXCEPT ![c] = (o = "error")]
  /\ calls' = [calls EXCEPT ![c] = @ + 1]
  /\ UNCHANGED <<targets, stories, clockVars, body, username, error, inserted, after,
                 anonView, viewVars, collabVars, getVars>>

\* a handler that answers a refused insert with 409
InsertFailure_Conflict(e) ==
  Respond(IF e = "outage" THEN 500 ELSE 409, "", "Failed to create target")

\* a handler that puts the store's error into the response
InsertFailure_Leak(e) == Respond(500, "", e)

\* if (error) { console.error(...); return 500 'Failed to create target' }
InsertFailure(e) == Respond(500, "", "Failed to create target")

\* a handler whose insert is an upsert on username: the stored row takes the
\* fresh dossier_id
PostInsert_Upsert(c, d, o) ==
  /\ pc[c] = "insert"
  /\ LET e == IF o = "error" THEN "outage"
              ELSE IF \E t \in targets : t.dossier_id = d THEN "unique_dossier"
              ELSE "none"
     IN /\ error' = [error EXCEPT ![c] = e]
        /\ IF e = "none"
             THEN /\ targets' =
                       IF FindByUsername(username[c]) = {}
                         THEN targets \cup {NewTarget(username[c], d, appNow)}
                         ELSE {IF t.username = username[c]
                                 THEN [t EXCEPT !.dossier_id = d, !.last_updated_at = appNow]
                                 ELSE t : t \in targets}
                  /\ inserted' = [inserted EXCEPT ![c] = TRUE]
                  /\ resp' = [resp EXCEPT ![c] = Respond(200, d, "")]
             ELSE /\ resp' = [resp EXCEPT ![c] = InsertFailure(e)]
                  /\ UNCHANGED <<targets, inserted>>
  /\ pc' = [pc EXCEPT ![c] = "done"]
  /\ calls' = [calls EXCEPT ![c] = @ + 1]
  /\ UNCHANGED <<stories, clockVars, body, username, existing, lookupErr, after,
                 anonView, viewVars, collabVars, getVars>>

\* a handler that inserts without .select() and reads dossier_id back with a
\* second call: when that call fails the row is stored and the answer is 500
PostInsert_ReadBack(c, d, o) ==
  /\ pc[c] = "insert"
  /\ LET refused == TargetInsertError(username[c], d)
         e == IF refused # "none" THEN refused ELSE IF o = "error" THEN "outage" ELSE "none"
     IN /\ error' = [error EXCEPT ![c] = e]
        /\ IF refused = "none"
             THEN /\ targets' = targets \cup {NewTarget(username[c], d, appNow)}
                  /\ inserted' = [inserted EXCEPT ![c] = TRUE]
             ELSE UNCHANGED <<targets, inserted>>
        /\ resp' = [resp EXCEPT ![c] =
                      IF e = "none" THEN Respond(200, d, "") ELSE InsertFailure(e)]
  /\ pc' = [pc EXCEPT ![c] = "done"]
  /\ calls' = [calls EXCEPT ![c] = @ + 1]
  /\ UNCHANGED <<stories, clockVars, body, username, existing, lookupErr, after,
                 anonView, viewVars, collabVars, getVars>>

\* generateDossierId(); the insert with .select('dossier_id').single();
\* if (error) 500, else 200 with data.dossier_id
PostInsert(c, d, o) ==
  /\ pc[c] = "insert"
  /\ LET e == IF o = "error" THEN "outage" ELSE TargetInsertError(username[c], d)
     IN /\ error' = [error EXCEPT ![c] = e]
        /\ IF e = "none"
             THEN /\ targets' = targets \cup {NewTarget(username[c], d, appNow)}
                  /\ inserted' = [inserted EXCEPT ![c] = TRUE]
                  /\ resp' = [resp EXCEPT ![c] = Respond(200, d, "")]
             ELSE /\ resp' = [resp EXCEPT ![c] = InsertFailure(e)]
                  /\ UNCHANGED <<targets, inserted>>
  /\ pc' = [pc EXCEPT ![c] = "done"]
  /\ calls' = [calls EXCEPT ![c] = @ + 1]
  /\ UNCHANGED <<stories, clockVars, body, username, existing, lookupErr, after,
                 anonView, viewVars, collabVars, getVars>>

\* an anonymous client selects username, dossier_id from targets (RLS: USING (true))
AnonSelectTargets ==
  /\ anonView' = {t.dossier_id : t \in targets}
  /\ anonView' # anonView
  /\ UNCHANGED <<targets, stories, clockVars, postVars, getVars, viewVars, collabVars>>

NextRegistration ==
  \/ \E c \in Callers, b \in Bodies : PostReceive(c, b)
  \/ \E c \in Callers, o \in Outcomes : PostLookup(c, o)
  \/ \E c \in Callers, d \in GenerateDossierId, o \in Outcomes : PostInsert(c, d, o)

SpecRegistration == Init /\ [][NextRegistration]_vars

\* ------------------------------------------------ external collaborator
\* create_target's own normalization: username.lower().strip().replace('@', '')
RemoveAt(s) == SelectSeq(s, LAMBDA ch : ch # "@")

CollabUsername(raw) == RemoveAt(Trim(ToLower(raw)))

\* create_target(username): one insert into targets; a violated constraint
\* raises in the collaborator and stores nothing
CollabCreateTarget(raw, d) ==
  /\ TargetInsertError(CollabUsername(raw), d) = "none"
  /\ targets' = targets \cup {NewTarget(CollabUsername(raw), d, dbNow)}
  /\ UNCHANGED <<stories, clockVars, postVars, anonView, viewVars, collabVars, getVars>>

\* the constraints of table stories: target_id REFERENCES targets(id),
\* UNIQUE(target_id, story_id)
StoryInsertOk(tid, sid) ==
  /\ \E t \in targets : t.id = tid
  /\ ~\E s \in stories : s.target_id = tid /\ s.story_id = sid

\* the collaborator writes a row into stories; media_type is any text, and
\* id (uuid DEFAULT gen_random_uuid()) is a value no other row has
CollabInsertStory(tid, sid, ts, mt) ==
  /\ Cardinality(stories) < MaxStories
  /\ StoryInsertOk(tid, sid)
  /\ stories' = stories \cup
       {[id |-> <<tid, sid>>, target_id |-> tid, story_id |-> sid,
         timestamp |-> ts, media_type |-> mt, analysis |-> "", created_at |-> dbNow]}
  /\ UNCHANGED <<targets, clockVars, postVars, anonView, viewVars, collabVars, getVars>>

\* the usernames save_story is called with: it looks the name up as given
SaveNames == {<<"a">>, <<"a", "a">>, <<"@", "A">>}

\* save_story(target_username, story_data): the target is looked up by
\* username with .single(), which raises when there is no such row; then one
\* insert into stories, which raises when (target_id, story_id) is stored;
\* table targets is not written
SaveStory(u, sid, ts, video) ==
  LET found == FindByUsername(u)
      tid == (CHOOSE t \in found : TRUE).id
      dup == found # {} /\ ~StoryInsertOk(tid, sid)
  IN /\ (found # {} /\ ~dup) => Cardinality(stories) < MaxStories
     /\ cCall' = [op |-> "save_story", found |-> found # {}, dup |-> dup,
                  result |-> IF found = {} \/ dup THEN "error" ELSE "ok"]
     /\ IF found # {} /\ ~dup
          THEN stories' = stories \cup
                 {[id |-> <<tid, sid>>, target_id |-> tid, story_id |-> sid,
                   timestamp |-> ts, media_type |-> IF video THEN "video" ELSE "image",
                   analysis |-> "", created_at |-> dbNow]}
          ELSE UNCHANGED stories
     /\ UNCHANGED <<targets, clockVars, postVars, anonView, getVars, viewVars>>

\* analyze_story(story_id, transcript, legal_analysis): every row of stories
\* with this story_id takes the analysis; the row is then read back with
\* .single(), which raises unless exactly one row has this story_id; then the
\* target of that row takes last_updated_at = now()
AnalyzeStory(sid, text) ==
  LET rows == {s \in stories : s.story_id = sid}
      one == Cardinality(rows) = 1
      tid == (CHOOSE s \in rows : TRUE).target_id
  IN /\ stories' = {IF s \in rows THEN [s EXCEPT !.analysis = text] ELSE s : s \in stories}
     /\ targets' = IF one
                     THEN {IF t.id = tid THEN [t EXCEPT !.last_updated_at = dbNow] ELSE t :
                             t \in targets}
                     ELSE targets
     /\ cCall' = [op |-> "analyze_story", found |-> rows # {}, dup |-> Cardinality(rows) > 1,
                  result |-> IF one THEN "ok" ELSE "error"]
     /\ UNCHANGED <<clockVars, postVars, anonView, getVars, viewVars>>

\* ------------------------------------- GET /api/dossier/[dossierId]
NoDossier ==
  [status |-> 0, dossierId |-> "", username |-> <<>>, storyCount |-> 0,
   stories |-> <<>>, error |-> ""]

DossierError(st, e) == [NoDossier EXCEPT !.status = st, !.error = e]

\* the orders a set of rows can come back in
Orderings(S) ==
  {f \in [1..Cardinality(S) -> S] : \A i, j \in 1..Cardinality(S) : f[i] = f[j] => i = j}

\* .from('stories').select('*').order('timestamp', { ascending: false }),
\* without .eq('target_id', tid)
SelectStories_AllTargets(tid) ==
  {f \in Orderings(stories) :
     \A i \in 1..(Len(f) - 1) : f[i].timestamp >= f[i + 1].timestamp}

\* .from('stories').select('*').eq('target_id', tid), in any order
SelectStories_Unordered(tid) == Orderings({s \in stories : s.target_id = tid})

\* .from('stories').select('*').eq('target_id', tid).order('timestamp',
\* { ascending: false }): rows with equal timestamps come in any order
SelectStories(tid) ==
  {f \in Orderings({s \in stories : s.target_id = tid}) :
     \A i \in 1..(Len(f) - 1) : f[i].timestamp >= f[i + 1].timestamp}

\* (story): Story => ({ id, timestamp, mediaType: story.media_type as ... })
ToStory(row) == [id |-> row.id, timestamp |-> row.timestamp, mediaType |-> row.media_type]

\* a handler that answers 404 for a target without stories
DossierResponse_EmptyIs404(t, rows) ==
  IF rows = <<>> THEN DossierError(404, "Dossier not found")
  ELSE [status |-> 200, dossierId |-> t.dossier_id, username |-> t.username,
        storyCount |-> Len(rows), stories |-> [i \in 1..Len(rows) |-> ToStory(rows[i])],
        error |-> ""]

\* const response: DossierResponse = { ... }
DossierResponse(t, rows) ==
  [status |-> 200, dossierId |-> t.dossier_id, username |-> t.username,
   storyCount |-> Len(rows), stories |-> [i \in 1..Len(rows) |-> ToStory(rows[i])],
   error |-> ""]

\* the request arrives with params.dossierId = d: what the handler starts from
GetArrive(d) ==
  /\ gpc \in {"idle", "done"}
  /\ gpc' = "lookup"
  /\ gparam' = d
  /\ gtarget' = {}
  /\ gTargetError' = FALSE
  /\ gStoriesError' = FALSE
  /\ gStored' = FALSE
  /\ gAfter' = {c \in Callers : pc[c] = "done"}
  /\ gresp' = NoDossier

\* a request of some client arrives
GetReceive(d) ==
  /\ GetArrive(d)
  /\ UNCHANGED <<targets, stories, clockVars, postVars, anonView, viewVars, collabVars>>

\* the target lookup; if (targetError || !target) 404
GetLookup(o) ==
  /\ gpc = "lookup"
  /\ gtarget' = (IF o = "ok" THEN FindByDossierId(gparam) ELSE {})
  /\ gTargetError' = (o = "error")
  /\ gStored' = (\E t \in targets : t.dossier_id = gparam)
  /\ IF gTargetError' \/ gtarget' = {}
       THEN /\ gresp' = DossierError(404, "Dossier not found")
            /\ gpc' = "done"
       ELSE /\ gpc' = "stories"
            /\ UNCHANGED gresp
  /\ UNCHANGED <<targets, stories, clockVars, postVars, anonView, viewVars, collabVars, gparam, gStoriesError,
                 gAfter>>

\* the stories query; if (storiesError) 500, else the response
GetStories(o) ==
  /\ gpc = "stories"
  /\ gStoriesError' = (o = "error")
  /\ LET t == CHOOSE x \in gtarget : TRUE
     IN IF o = "error"
          THEN gresp' = DossierError(500, "Failed to fetch stories")
          ELSE \E rows \in SelectStories(t.id) : gresp' = DossierResponse(t, rows)
  /\ gpc' = "done"
  /\ UNCHANGED <<targets, stories, clockVars, postVars, anonView, viewVars, collabVars, gparam, gtarget,
                 gTargetError, gStored, gAfter>>

\* ------------------------------------------- the dossier page (page.tsx)
NotFoundMessage ==
  "Dossier not found. Please check your URL or wait for the system to collect the first stories."

\* fetchDossier with setLoading(false) inside try, after setDossier
FetchDossier_NoFinally(r) ==
  IF r.status \in 200..299
    THEN [dossier |-> r, error |-> verror, loading |-> FALSE]
    ELSE [dossier |-> dossier,
          error |-> IF r.status = 404 THEN NotFoundMessage ELSE "Failed to load dossier",
          loading |-> loading]

\* fetchDossier from the response r on: if (!response.ok) throw ...;
\* setDossier(data); catch: setError(err.message); finally: setLoading(false)
FetchDossier(r) ==
  IF r.status \in 200..299
    THEN [dossier |-> r, error |-> verror, loading |-> FALSE]
    ELSE [dossier |-> dossier,
          error |-> IF r.status = 404 THEN NotFoundMessage ELSE "Failed to load dossier",
          loading |-> FALSE]

\* what the component returns: the spinner, the error alert, null, the
\* "No Stories Yet" card or the timeline
DossierPage ==
  IF loading THEN "loading"
  ELSE IF verror # "" THEN "error"
  ELSE IF dossier = NoDossier THEN "null"
  ELSE IF dossier.storyCount = 0 THEN "empty"
  ELSE "timeline"

\* the page is loaded at /dossier/d: the component mounts with its initial
\* state, the effect runs and its request reaches the handler
ViewLoad(d) ==
  /\ vfetch # "pending"
  /\ GetArrive(d)
  /\ vurl' = d
  /\ vfetch' = "pending"
  /\ vresp' = NoDossier
  /\ loading' = TRUE
  /\ verror' = ""
  /\ dossier' = NoDossier
  /\ vstale' = {}
  /\ UNCHANGED <<targets, stories, clockVars, postVars, anonView, collabVars>>

\* the handler's response reaches the page
ViewSettle ==
  /\ vfetch = "pending"
  /\ gpc = "done"
  /\ vfetch' = "settled"
  /\ vresp' = gresp
  /\ dossier' = FetchDossier(gresp).dossier
  /\ verror' = FetchDossier(gresp).error
  /\ loading' = FetchDossier(gresp).loading
  /\ UNCHANGED <<targets, stories, clockVars, postVars, anonView, getVars, vurl, vstale,
                 collabVars>>

\* fetch rejects (no response reaches the page): catch sets err.message
ViewNetworkFailure ==
  /\ vfetch = "pending"
  /\ vfetch' = "failed"
  /\ verror' = "Failed to fetch"
  /\ loading' = FALSE
  /\ UNCHANGED <<targets, stories, clockVars, postVars, anonView, getVars, vurl, vresp,
                 dossier, vstale, collabVars>>

\* params.dossierId of the mounted page changes to d: the state is kept, the
\* effect runs again ([dossierId]) and sends a request for d; the response to
\* a fetch still pending stays on its way, the effect has no cleanup
ViewNavigate(d) ==
  /\ vfetch # "none"
  /\ d # vurl
  /\ vfetch = "pending" => (gpc = "done" /\ Cardinality(vstale) < MaxStale)
  /\ vstale' = IF vfetch = "pending" THEN vstale \cup {gresp} ELSE vstale
  /\ GetArrive(d)
  /\ vurl' = d
  /\ vfetch' = "pending"
  /\ vresp' = NoDossier
  /\ UNCHANGED <<targets, stories, clockVars, postVars, anonView, loading, verror, dossier,
                 collabVars>>

\* the response to a fetch for an earlier identifier reaches the page
ViewSettleStale ==
  \E r \in vstale :
    /\ vstale' = vstale \ {r}
    /\ dossier' = FetchDossier(r).dossier
    /\ verror' = FetchDossier(r).error
    /\ loading' = FetchDossier(r).loading
    /\ UNCHANGED <<targets, stories, clockVars, postVars, anonView, getVars, vurl, vfetch,
                   vresp, collabVars>>

\* the dossier page over the retrieval endpoint, the collaborator filling
\* the store
NextView ==
  \/ \E raw \in CollabRaws, d \in DossierIds : CollabCreateTarget(raw, d)
  \/ \E sid \in StoryIds, ts \in Timestamps : CollabInsertStory(1, sid, ts, "image")
  \/ \E d \in RequestIds : ViewLoad(d)
  \/ \E o \in Outcomes : GetLookup(o)
  \/ \E o \in Outcomes : GetStories(o)
  \/ ViewSettle
  \/ ViewNetworkFailure

SpecView == Init /\ [][NextView]_vars

\* both handlers with every store call returning in the end: a handler that
\* waits for the store goes on
NextLive ==
  \/ \E c \in Callers, b \in LiveBodies : PostReceive(c, b)
  \/ \E c \in Callers, o \in Outcomes : PostLookup(c, o)
  \/ \E c \in Callers, d \in GenerateDossierId, o \in Outcomes : PostInsert(c, d, o)
  \/ \E raw \in CollabRaws : CollabCreateTarget(raw, "x7")
  \/ \E d \in RequestIds : GetReceive(d)
  \/ \E o \in Outcomes : GetLookup(o)
  \/ \E o \in Outcomes : GetStories(o)

Fairness ==
  /\ \A c \in Callers : WF_vars(\E o \in Outcomes : PostLookup(c, o))
  /\ \A c \in Callers :
       WF_vars(\E d \in GenerateDossierId, o \in Outcomes : PostInsert(c, d, o))
  /\ WF_vars(\E o \in Outcomes : GetLookup(o))
  /\ WF_vars(\E o \in Outcomes : GetStories(o))

SpecLive == Init /\ [][NextLive]_vars /\ Fairness

\* the dossier page while its identifier changes
NextNavigate ==
  \/ NextView
  \/ \E d \in RequestIds : ViewNavigate(d)
  \/ ViewSettleStale

SpecNavigate == Init /\ [][NextNavigate]_vars

NextDossier ==
  \/ \E raw \in CollabRaws, d \in DossierIds : CollabCreateTarget(raw, d)
  \/ \E tid \in 1..Cardinality(DossierIds), sid \in StoryIds, ts \in Timestamps,
        mt \in MediaTexts : CollabInsertStory(tid, sid, ts, mt)
  \/ \E d \in RequestIds : GetReceive(d)
  \/ \E o \in Outcomes : GetLookup(o)
  \/ \E o \in Outcomes : GetStories(o)

SpecDossier == Init /\ [][NextDossier]_vars

\* ----------------------------------------------------------- the clocks
TickApp ==
  /\ appNow < MaxClock
  /\ appNow' = appNow + 1
  /\ UNCHANGED <<targets, stories, dbNow, postVars, anonView, viewVars, collabVars, getVars>>

TickDb ==
  /\ dbNow < MaxClock
  /\ dbNow' = dbNow + 1
  /\ UNCHANGED <<targets, stories, appNow, postVars, anonView, viewVars, collabVars, getVars>>

\* registrations while the two clocks run
NextClocks ==
  \/ \E c \in Callers, b \in FewBodies : PostReceive(c, b)
  \/ \E c \in Callers, o \in Outcomes : PostLookup(c, o)
  \/ \E c \in Callers, d \in GenerateDossierId, o \in Outcomes : PostInsert(c, d, o)
  \/ TickApp
  \/ TickDb

SpecClocks == Init /\ [][NextClocks]_vars

\* normalizeUsername as the handler calls it: one request, its body any
\* username string of up to MaxNorm characters, taken up to the first store call
NextNormalize == \E b \in NormBodies : PostReceive("c1", b)

SpecNormalize == Init /\ [][NextNormalize]_vars

\* the collaborator's documented operations while the store's clock runs
NextCollaborator ==
  \/ \E raw \in CollabRaws, d \in DossierIds : CollabCreateTarget(raw, d)
  \/ \E u \in SaveNames, sid \in StoryIds, video \in BOOLEAN : SaveStory(u, sid, 1, video)
  \/ \E sid \in StoryIds : AnalyzeStory(sid, "analysis")
  \/ TickDb

SpecCollaborator == Init /\ [][NextCollaborator]_vars

\* both endpoints and the collaborator on one store: registrations of a few
\* usernames, targets the collaborator creates, one story, dossier requests
NextSystem ==
  \/ \E c \in Callers, b \in SysBodies : PostReceive(c, b)
  \/ \E c \in Callers, o \in Outcomes : PostLookup(c, o)
  \/ \E c \in Callers, d \in GenerateDossierId, o \in Outcomes : PostInsert(c, d, o)
  \/ \E raw \in CollabRaws, d \in DossierIds : CollabCreateTarget(raw, d)
  \/ CollabInsertStory(1, "s1", 1, "video")
  \/ \E d \in DossierIds : GetReceive(d)
  \/ \E o \in Outcomes : GetLookup(o)
  \/ \E o \in Outcomes : GetStories(o)

SpecSystem == Init /\ [][NextSystem]_vars

Next == NextRegistration \/ NextDossier \/ AnonSelectTargets \/ TickApp \/ TickDb

Spec == Init /\ [][Next]_vars

\* ------------------------------------------- properties of registration
Done(c) == pc[c] = "done"

\* the body passed both checks: the handler went on to the store
Valid(c) == Validate(body[c]).status = 0

\* the canonical username of the request's raw username
Canon(c) == NormalizeUsername(body[c].username)

\* no store call of the request failed for a reason other than the username
\* being taken: no outage at the lookup or the insert, no dossier_id collision
NoOutage(c) == ~lookupErr[c] /\ error[c] \notin {"outage", "unique_dossier"}

\* both requests were answered, for raw usernames with the same canonical form
SameUsername(c1, c2) ==
  /\ c1 # c2 /\ Done(c1) /\ Done(c2)
  /\ Valid(c1) /\ Valid(c2)
  /\ Canon(c1) = Canon(c2)

\* C1: two successive registrations (the second arrives after the first was
\* answered) of raw usernames with the same canonical form, neither hit by a
\* store failure, both return 200 with the same dossierId, and one row with
\* that canonical username is stored.
C1_SequentialIdempotent ==
  \A c1, c2 \in Callers :
    (SameUsername(c1, c2) /\ c1 \in after[c2] /\ NoOutage(c1) /\ NoOutage(c2))
      => /\ resp[c1].status = 200 /\ resp[c2].status = 200
         /\ resp[c1].dossierId = resp[c2].dossierId
         /\ Cardinality({t \in targets : t.username = Canon(c1)}) = 1

\* two successive registrations whose raw usernames differ were both answered
\* 200: the first stored the row, the second found it
C1_Witness ==
  \E c1, c2 \in Callers :
    /\ SameUsername(c1, c2) /\ c1 \in after[c2]
    /\ body[c1].username # body[c2].username
    /\ inserted[c1] /\ existing[c2] # {}
    /\ resp[c2].status = 200 /\ resp[c2].dossierId = resp[c1].dossierId

\* both requests looked the username up before either inserted: both lookups
\* answered, and neither found a row
Raced(c1, c2) ==
  /\ SameUsername(c1, c2)
  /\ existing[c1] = {} /\ existing[c2] = {}
  /\ NoOutage(c1) /\ NoOutage(c2)

\* C2: when two registrations of the same new username race (both look up
\* before either inserts), both are answered 200 with the same dossierId.
C2_RaceBothSucceed ==
  \A c1, c2 \in Callers :
    Raced(c1, c2)
      => /\ resp[c1].status = 200 /\ resp[c2].status = 200
         /\ resp[c1].dossierId = resp[c2].dossierId

\* C3: once two registrations of the same new username have been answered,
\* in any interleaving and with no store failure but the username being taken,
\* one row with that username is stored.
C3_ExactlyOneRow ==
  \A c1, c2 \in Callers :
    (SameUsername(c1, c2) /\ NoOutage(c1) /\ NoOutage(c2))
      => Cardinality({t \in targets : t.username = Canon(c1)}) = 1

\* the two requests raced, and the insert of one was refused by UNIQUE(username)
C3_Witness ==
  \E c1, c2 \in Callers :
    /\ Raced(c1, c2)
    /\ inserted[c1] /\ error[c2] = "unique_username"
    /\ Cardinality({t \in targets : t.username = Canon(c1)}) = 1

\* C4: a dossierId a caller obtains from POST /api/targets is the dossierId
\* of a Target its own request created: a caller who knows only the username
\* of a Target registered by someone else does not get that Target's dossierId.
C4_NoReverseLookup ==
  \A c \in Callers :
    (Done(c) /\ resp[c].status = 200) => inserted[c]

\* C11: every Target row the registration endpoint created has created_at
\* equal to last_updated_at, whatever the two clocks read.
C11_CreatedEqualsUpdated ==
  \A t \in targets : t.created_at = t.last_updated_at

\* C12: a registration whose insert failed is answered 500 with the one
\* body 'Failed to create target', whatever the failure was.
C12_GenericInsertError ==
  \A c \in Callers :
    (Done(c) /\ error[c] # "none") => resp[c] = Respond(500, "", "Failed to create target")

\* an insert refused by a UNIQUE constraint was answered with the generic body
C12_Witness ==
  \E c \in Callers :
    /\ Done(c) /\ error[c] \in {"unique_username", "unique_dossier"}
    /\ resp[c] = Respond(500, "", "Failed to create target")

\* C13: when POST /api/targets answered 200 with dossierId d, a GET for d that
\* arrives afterwards, the store answering both its queries, is answered 200
\* with dossierId d and the normalized form of the registered username.
C13_RegisterThenFetch ==
  \A c \in Callers :
    (/\ Done(c) /\ resp[c].status = 200
     /\ gpc = "done" /\ c \in gAfter /\ gparam = resp[c].dossierId
     /\ ~gTargetError /\ ~gStoriesError)
      => /\ gresp.status = 200
         /\ gresp.dossierId = resp[c].dossierId
         /\ gresp.username = Canon(c)

\* a registration of a raw username that is not in normal form stored the
\* row, and the dossier was fetched afterwards
C13_Witness ==
  \E c \in Callers :
    /\ Done(c) /\ inserted[c] /\ body[c].username # Canon(c)
    /\ gpc = "done" /\ c \in gAfter /\ gparam = resp[c].dossierId
    /\ gresp.status = 200 /\ gresp.username = Canon(c)

\* C15: no two rows of table targets share a username, and no two share a
\* dossier_id.
C15_TargetsUnique ==
  \A t1, t2 \in targets :
    t1 # t2 => (t1.username # t2.username /\ t1.dossier_id # t2.dossier_id)

\* a registration generated the dossier_id of a stored row and was refused,
\* and two rows are stored
C15_Witness ==
  /\ \E c \in Callers : Done(c) /\ error[c] = "unique_dossier"
  /\ Cardinality(targets) = 2

\* C18: once the fetch of the dossier page is over, the page does not show the
\* spinner; it shows the alert with the not-found message when the response
\* was 404, the alert with another message when the response was any other
\* failure or no response came, the "No Stories Yet" card when the response
\* was 200 with storyCount 0, and the timeline when it was 200 with more.
C18_ViewOutcome ==
  /\ vfetch \in {"settled", "failed"} => ~loading
  /\ vfetch = "failed" => (DossierPage = "error" /\ verror # NotFoundMessage)
  /\ vfetch = "settled" =>
       /\ vresp.status = 404 => (DossierPage = "error" /\ verror = NotFoundMessage)
       /\ vresp.status \notin ({404} \cup 200..299) =>
            (DossierPage = "error" /\ verror # NotFoundMessage)
       /\ (vresp.status = 200 /\ vresp.storyCount = 0) =>
            (DossierPage = "empty" /\ dossier = vresp)
       /\ (vresp.status = 200 /\ vresp.storyCount > 0) =>
            (DossierPage = "timeline" /\ dossier = vresp)

\* the page of a stored dossier got a 500 and shows the error alert
C18_Witness ==
  /\ vfetch = "settled" /\ vresp.status = 500
  /\ DossierPage = "error" /\ verror = "Failed to load dossier"

\* C19: a Target's last_updated_at is never older than the time any of its
\* stories was stored.
C19_TargetNotOlderThanStories ==
  \A s \in stories : \A t \in targets :
    t.id = s.target_id => t.last_updated_at >= s.created_at

\* C20: a save_story for a stored Target and a story_id that this Target
\* already has does not fail.
C20_SecondSaveSucceeds ==
  (cCall.op = "save_story" /\ cCall.found /\ cCall.dup) => cCall.result = "ok"

\* C21: an analyze_story that changes rows of table stories changes the rows
\* of one Target only, sets that Target's last_updated_at and leaves every
\* other Target as it is.
C21_AnalyzeIsolated ==
  [][(cCall'.op = "analyze_story" /\ stories' # stories) =>
       LET changed == {s.target_id : s \in stories \ stories'}
       IN /\ Cardinality(changed) = 1
          /\ \A t \in targets :
               IF t.id \in changed
                 THEN [t EXCEPT !.last_updated_at = dbNow] \in targets'
                 ELSE t \in targets']_vars

\* C22: when GET answers 200, the stories of the response are exactly the rows
\* of table stories of the Target whose dossier_id was asked for, each once,
\* and storyCount is the length of the list.
C22_ResponseConsistent ==
  [][(gpc = "stories" /\ gresp'.status = 200) =>
       LET list == gresp'.stories
           t == CHOOSE x \in targets : x.dossier_id = gparam
       IN /\ \E x \in targets : x.dossier_id = gparam
          /\ {list[i].id : i \in 1..Len(list)} = {s.id : s \in {r \in stories : r.target_id = t.id}}
          /\ \A i, j \in 1..Len(list) : list[i].id = list[j].id => i = j
          /\ gresp'.storyCount = Len(list)]_vars

\* a dossier was served with one story while another Target has a story too
C22_Witness ==
  /\ gpc = "done" /\ gresp.status = 200 /\ gresp.storyCount = 1
  /\ \E s1, s2 \in stories : s1.target_id # s2.target_id

C25_EveryRequestAnswered ==
  /\ [](\A c \in Callers : Done(c) => resp[c].status \in {200, 400, 500})
  /\ [](gpc = "done" => gresp.status \in {200, 404, 500})
  /\ [][/\ \A c \in Callers : Done(c) => resp'[c] = resp[c]
        /\ (gpc = "done" /\ gpc' = "done") => gresp' = gresp]_vars
  /\ \A c \in Callers : (pc[c] # "idle") ~> Done(c)
  /\ (gpc # "idle") ~> (gpc = "done")

\* an unreadable body, a failed insert and a failed stories query were each
\* answered 500
C25_Witness ==
  /\ \E c1, c2 \in Callers :
       /\ Done(c1) /\ body[c1].kind = "malformed" /\ resp[c1].status = 500
       /\ Done(c2) /\ error[c2] = "outage" /\ resp[c2].status = 500
  /\ gpc = "done" /\ gStoriesError /\ gresp.status = 500

\* a step of the web tier: one of the two handlers moves
WebStep == pc' # pc \/ gpc' # gpc

\* C16: a step of POST /api/targets or GET /api/dossier keeps every stored
\* Target with its id, username, dossier_id and created_at, and leaves table
\* stories as it is; a step of GET leaves both tables as they are.
C16_WebTierFrame ==
  [][WebStep =>
       /\ \A t \in targets : \E t2 \in targets' :
            /\ t2.id = t.id /\ t2.username = t.username
            /\ t2.dossier_id = t.dossier_id /\ t2.created_at = t.created_at
       /\ stories' = stories
       /\ (gpc' # gpc) => (targets' = targets)]_vars

\* a registration stored a row beside a Target that has a story, and a
\* dossier was served
C16_Witness ==
  /\ \E c \in Callers : Done(c) /\ inserted[c]
  /\ Cardinality(targets) = 2 /\ stories # {}
  /\ gpc = "done" /\ gresp.status = 200 /\ gresp.storyCount = 1

\* the request carries no usable username: none at all (the body is null or
\* has no username member), one that is not a string, or one that normalizes
\* to the empty string
InvalidInput(b) ==
  \/ b.kind \in {"null", "nofield", "nonstring"}
  \/ b.kind = "string" /\ NormalizeUsername(b.username) = <<>>

\* C10: a request with no usable username is answered 400, and no store call
\* is made for it.
C10_InvalidIs400 ==
  \A c \in Callers :
    (Done(c) /\ InvalidInput(body[c])) => (resp[c].status = 400 /\ calls[c] = 0)

\* the reference normalization, stated by positions: the raw string without
\* its longest prefix and suffix of blanks ...
RefCore(raw) ==
  LET n == Len(raw)
      lead == CHOOSE a \in 0..n :
                /\ \A i \in 1..a : raw[i] = " "
                /\ (a = n \/ raw[a + 1] # " ")
      trail == CHOOSE z \in 0..n :
                 /\ \A i \in (n - z + 1)..n : raw[i] = " "
                 /\ (z = n \/ raw[n - z] # " ")
  IN IF lead = n THEN <<>> ELSE SubSeq(raw, lead + 1, n - trail)

\* ... without one "@" in front, every capital replaced by its small letter
Reference(raw) ==
  LET core == RefCore(raw)
      rest == IF core # <<>> /\ core[1] = "@" THEN SubSeq(core, 2, Len(core)) ELSE core
  IN [i \in 1..Len(rest) |-> IF rest[i] = "A" THEN "a" ELSE rest[i]]

Canonical(u) ==
  /\ \A i \in 1..Len(u) : u[i] # "A"
  /\ u # <<>> => (u[1] # "@" /\ u[1] # " " /\ u[Len(u)] # " ")

\* C17: every username the registration endpoint stored is in canonical form.
C17_StoredCanonical ==
  \A c \in Callers : inserted[c] => Canonical(username[c])

\* ---------------------------------------- properties of dossier retrieval
\* a Target with dossier_id = d is stored
Issued(d) == \E t \in targets : t.dossier_id = d

\* the rows of table stories that belong to the Target with dossier_id = d
StoredStories(d) == {s \in stories : \E t \in targets : t.dossier_id = d /\ t.id = s.target_id}

\* C5: GET for an identifier that is the dossier_id of no stored Target is
\* answered 404, whatever the store call came back with; an identifier that
\* differs from a stored one in letter case only is such an identifier.
C5_UnknownIs404 == (gpc = "done" /\ ~Issued(gparam)) => gresp.status = 404

\* a GET for a letter-case variant of a stored dossier_id was answered 404
C5_Witness ==
  /\ gpc = "done" /\ ~Issued(gparam)
  /\ \E t \in targets : FoldCase(t.dossier_id) = FoldCase(gparam)
  /\ gresp.status = 404

\* C6: GET for the dossier_id of a stored Target is never answered 404: it is
\* answered 200 when the store answered both queries and 500 when the target
\* lookup or the stories query failed.
C6_StoredNever404 ==
  (gpc = "done" /\ gStored)
    => /\ gresp.status # 404
       /\ (~gTargetError /\ ~gStoriesError) => gresp.status = 200
       /\ (gTargetError \/ gStoriesError) => gresp.status = 500

\* C7: GET for a stored Target that has no Story, the store answering both
\* queries, is answered 200 with storyCount = 0 and an empty stories list.
C7_EmptyDossier ==
  (gpc = "done" /\ gStored /\ ~gTargetError /\ ~gStoriesError /\ StoredStories(gparam) = {})
    => /\ gresp.status = 200
       /\ gresp.storyCount = 0
       /\ gresp.stories = <<>>

\* a GET for a stored Target without stories was answered, while another
\* Target has stories
C7_Witness ==
  /\ gpc = "done" /\ gStored /\ ~gTargetError /\ ~gStoriesError
  /\ StoredStories(gparam) = {}
  /\ stories # {}
  /\ gresp.status = 200 /\ gresp.storyCount = 0

\* C8 as stated: in a 200 response every story has a timestamp strictly
\* greater than the next one's.
C8_StrictlyDescending ==
  gresp.status = 200
    => \A i \in 1..(Len(gresp.stories) - 1) :
         gresp.stories[i].timestamp > gresp.stories[i + 1].timestamp

\* C8: in a 200 response no story has a timestamp smaller than the next
\* one's: the list is in descending order of timestamp, and stories with
\* equal timestamps are adjacent, in either order.
C8_Descending ==
  gresp.status = 200
    => \A i \in 1..(Len(gresp.stories) - 1) :
         gresp.stories[i].timestamp >= gresp.stories[i + 1].timestamp

\* a 200 response lists two stories with different timestamps
C8_Witness ==
  /\ gresp.status = 200
  /\ \E i \in 1..(Len(gresp.stories) - 1) :
       gresp.stories[i].timestamp > gresp.stories[i + 1].timestamp

\* C9: every story of a 200 response has mediaType image or video.
C9_MediaTypeClosed ==
  gresp.status = 200
    => \A i \in 1..Len(gresp.stories) : gresp.stories[i].mediaType \in {"image", "video"}

====
